---- MODULE Spec2Model ----
(***************************************************************************)
(* Hoard: a content-addressed, deterministically encrypted blob store.     *)
(*                                                                         *)
(* The model covers the encrypted-store facade (hoard.Put/Get/Ref/Store),  *)
(* the content-addressed store (Address/Put/Get/Stat) and the addresser    *)
(* closure built by makeAddresser around ONE hash.Hash shared by every     *)
(* call.  Byte strings are sequences of bits;    a 32-byte SHA-256 digest   *)
(* is abstracted as a natural number computed injectively from the bytes   *)
(* hashed (an ideal, collision-free hash).                                 *)
(*                                                                         *)
(* Spec     : calls run one after the other, each call one atomic action.  *)
(* SpecConc : calls are handled by parallel request handlers; the three    *)
(*            hasher calls of the addresser and the backend write are      *)
(*            separate steps that interleave.                              *)
(***************************************************************************)
EXTENDS Integers, Sequences, FiniteSets, TLC

VARIABLES store, hasher, issued, last, calls, proc

vars == <<store, hasher, issued, last, calls, proc>>

(* ------------------------------ bounds --------------------------------- *)

\* number of Put / Ref / Push calls in one run of Spec
MaxCalls == 2
\* number of calls started in one run of SpecConc
MaxConcCalls == 3

\* the cleartexts (and raw blobs) callers submit
Data == {<<>>, <<0>>, <<1>>, <<1, 0>>}

Salts == {<<>>, <<1>>}

Procs == {1, 2}

(* ------------------------- values and errors --------------------------- *)

\* a nil byte slice: no payload (distinct from every byte string)
Nil == <<-1>>

NoErr == "nil"

\* a zero-length key or address (the field is absent from the reference)
NoBytes == 0

NilRef == [address |-> NoBytes, secretKey |-> NoBytes, salt |-> Nil]

(* --------------------------- crypto/sha256 ----------------------------- *)

\* The digest of a byte string, as a number: injective, never NoBytes.
RECURSIVE Sha256(_)
Sha256(s) ==
    IF s = <<>> THEN 1
    ELSE 2 * Sha256(SubSeq(s, 1, Len(s) - 1)) + s[Len(s)]

\* hash.Hash: the state of a hasher is the bytes written since the last Reset
HasherReset(h) == <<>>

HasherWrite(h, data) == h \o data

HasherSum(h) == Sha256(h)

(* -------------------- deterministic encryption ------------------------- *)

DeriveSecretKey(data) == Sha256(data)

Nonce(salt) == IF salt = <<>> THEN 0 ELSE Sha256(salt) % 4

KeyStream(key, nonce, i) == ((key \div 2) + nonce + i) % 2

Xor(a, b) == (a + b) % 2

Encrypt(data, salt) ==
    LET key == DeriveSecretKey(data)
    IN  [err |-> NoErr,
         secretKey |-> key,
         encryptedData |->
             [i \in 1..Len(data) |-> Xor(data[i], KeyStream(key, Nonce(salt), i))]]

Decrypt(secretKey, encryptedData, salt) ==
    IF secretKey = NoBytes
    THEN [err |-> "CryptoError", data |-> Nil]
    ELSE [err |-> NoErr,
          data |-> [i \in 1..Len(encryptedData) |->
                       Xor(encryptedData[i], KeyStream(secretKey, Nonce(salt), i))]]

ReferenceNew(address, secretKey, salt) ==
    [address |-> address, secretKey |-> secretKey, salt |-> salt]

(* ------------------------- backing store ------------------------------- *)

\* storage.Store: a map from address to blob.  ok = FALSE is a backend
\* I/O failure, which writes nothing.
StorePut(st, address, data, ok) ==
    IF ok
    THEN [store |-> [a \in DOMAIN st \cup {address} |->
                        IF a = address THEN data ELSE st[a]],
          err |-> NoErr]
    ELSE [store |-> st, err |-> "IOError"]

StoreGet(st, address) ==
    IF address \in DOMAIN st
    THEN [data |-> st[address], err |-> NoErr]
    ELSE [data |-> Nil, err |-> "NotFound"]

StoreStat(st, address) ==
    IF address \in DOMAIN st
    THEN [exists |-> TRUE, size |-> Len(st[address]), err |-> NoErr]
    ELSE [exists |-> FALSE, size |-> 0, err |-> NoErr]

(* --------------------- content-addressed store ------------------------- *)

\* makeAddresser: the closure resets, feeds and sums the one hasher it
\* closes over; h is that hasher's state when the call starts.
AddresserNoReset(h, data) ==
    LET h2 == HasherWrite(h, data)
    IN  [hasher |-> h2, address |-> HasherSum(h2)]

Addresser(h, data) ==
    LET h1 == HasherReset(h)
        h2 == HasherWrite(h1, data)
    IN  [hasher |-> h2, address |-> HasherSum(h2)]

CasAddress(h, data) == Addresser(h, data)

CasPutKeyOff(st, h, data, ok) ==
    LET a == Addresser(h, data)
        w == StorePut(st, a.address + 1, data, ok)
    IN  [store |-> w.store, hasher |-> a.hasher, address |-> a.address, err |-> w.err]

CasPut(st, h, data, ok) ==
    LET a == Addresser(h, data)
        w == StorePut(st, a.address, data, ok)
    IN  [store |-> w.store, hasher |-> a.hasher, address |-> a.address, err |-> w.err]

CasGet(st, address) == StoreGet(st, address)

CasStat(st, address) == StoreStat(st, address)

(* ----------------------- encrypted-store facade ------------------------ *)

HoardGetIgnoreErr(st, ref) ==
    LET g == CasGet(st, ref.address)
        d == Decrypt(ref.secretKey, IF g.err = NoErr THEN g.data ELSE <<>>, ref.salt)
    IN  IF d.err # NoErr
        THEN [data |-> Nil, err |-> d.err, decrypted |-> TRUE]
        ELSE [data |-> d.data, err |-> NoErr, decrypted |-> TRUE]

HoardGetNoSalt(st, ref) ==
    LET g == CasGet(st, ref.address)
    IN  IF g.err # NoErr
        THEN [data |-> Nil, err |-> g.err, decrypted |-> FALSE]
        ELSE LET d == Decrypt(ref.secretKey, g.data, <<>>)
             IN  IF d.err # NoErr
                 THEN [data |-> Nil, err |-> d.err, decrypted |-> TRUE]
                 ELSE [data |-> d.data, err |-> NoErr, decrypted |-> TRUE]

HoardGet(st, ref) ==
    LET g == CasGet(st, ref.address)
    IN  IF g.err # NoErr
        THEN [data |-> Nil, err |-> g.err, decrypted |-> FALSE]
        ELSE LET d == Decrypt(ref.secretKey, g.data, ref.salt)
             IN  IF d.err # NoErr
                 THEN [data |-> Nil, err |-> d.err, decrypted |-> TRUE]
                 ELSE [data |-> d.data, err |-> NoErr, decrypted |-> TRUE]

HoardPutCleartext(st, h, data, salt, ok) ==
    LET blob == Encrypt(data, salt)
        p == CasPut(st, h, data, ok)
    IN  IF p.err # NoErr
        THEN [store |-> p.store, hasher |-> p.hasher, ref |-> NilRef, err |-> p.err]
        ELSE [store |-> p.store, hasher |-> p.hasher,
              ref |-> ReferenceNew(p.address, blob.secretKey, salt), err |-> NoErr]

HoardPut(st, h, data, salt, ok) ==
    LET blob == Encrypt(data, salt)
    IN  IF blob.err # NoErr
        THEN [store |-> st, hasher |-> h, ref |-> NilRef, err |-> blob.err]
        ELSE LET p == CasPut(st, h, blob.encryptedData, ok)
             IN  IF p.err # NoErr
                 THEN [store |-> p.store, hasher |-> p.hasher, ref |-> NilRef,
                       err |-> p.err]
                 ELSE [store |-> p.store, hasher |-> p.hasher,
                       ref |-> ReferenceNew(p.address, blob.secretKey, salt),
                       err |-> NoErr]

HoardRefCleartext(st, h, data, salt) ==
    LET blob == Encrypt(data, salt)
        a == CasAddress(h, data)
    IN  [store |-> st, hasher |-> a.hasher,
         ref |-> ReferenceNew(a.address, blob.secretKey, salt), err |-> NoErr]

HoardRefWrites(st, h, data, salt) ==
    LET blob == Encrypt(data, salt)
        p == CasPut(st, h, blob.encryptedData, TRUE)
    IN  [store |-> p.store, hasher |-> p.hasher,
         ref |-> ReferenceNew(p.address, blob.secretKey, salt), err |-> NoErr]

HoardRef(st, h, data, salt) ==
    LET blob == Encrypt(data, salt)
    IN  IF blob.err # NoErr
        THEN [store |-> st, hasher |-> h, ref |-> NilRef, err |-> blob.err]
        ELSE LET a == CasAddress(h, blob.encryptedData)
             IN  [store |-> st, hasher |-> a.hasher,
                  ref |-> ReferenceNew(a.address, blob.secretKey, salt),
                  err |-> NoErr]

(* ------------------------------ state ---------------------------------- *)

Idle == [pc |-> "idle", op |-> "none", data |-> <<>>, salt |-> <<>>,
         blob |-> <<>>, key |-> NoBytes, address |-> NoBytes]

NoCall == [op |-> "none", data |-> <<>>, salt |-> <<>>, ref |-> NilRef,
           err |-> NoErr, out |-> Nil, decrypted |-> FALSE,
           exists |-> FALSE, size |-> 0, again |-> FALSE]

Init ==
    /\ store = <<>>
    /\ hasher = <<>>
    /\ issued = {}
    /\ last = NoCall
    /\ calls = 0
    /\ proc = [p \in Procs |-> Idle]

Issue(op, data, salt, ref) ==
    issued \cup {[op |-> op, data |-> data, salt |-> salt, ref |-> ref]}

\* whether the same call has already succeeded
Again(op, data, salt) ==
    \E r \in issued : r.op = op /\ r.data = data /\ r.salt = salt

(* --------------------- calls, one after the other ---------------------- *)

\* Cleartext.Put -> hoard.Put
Put(data, salt, ok) ==
    /\ calls < MaxCalls
    /\ LET r == HoardPut(store, hasher, data, salt, ok)
       IN  /\ store' = r.store
           /\ hasher' = r.hasher
           /\ issued' = IF r.err = NoErr THEN Issue("Put", data, salt, r.ref) ELSE issued
           /\ last' = [NoCall EXCEPT !.op = "Put", !.data = data, !.salt = salt,
                                     !.ref = r.ref, !.err = r.err,
                                     !.again = Again("Put", data, salt)]
    /\ calls' = calls + 1
    /\ UNCHANGED proc

\* hoard.Ref
Ref(data, salt) ==
    /\ calls < MaxCalls
    /\ LET r == HoardRef(store, hasher, data, salt)
       IN  /\ store' = r.store
           /\ hasher' = r.hasher
           /\ issued' = IF r.err = NoErr THEN Issue("Ref", data, salt, r.ref) ELSE issued
           /\ last' = [NoCall EXCEPT !.op = "Ref", !.data = data, !.salt = salt,
                                     !.ref = r.ref, !.err = r.err,
                                     !.again = Again("Ref", data, salt)]
    /\ calls' = calls + 1
    /\ UNCHANGED proc

\* the references a caller can present: those it was given, and those with
\* the secret key left out
KnownRefs == {r.ref : r \in issued}

GetInputs == KnownRefs \cup {[r EXCEPT !.secretKey = NoBytes] : r \in KnownRefs}

\* Cleartext.Get -> hoard.Get
Get(ref) ==
    /\ LET r == HoardGet(store, ref)
       IN  last' = [NoCall EXCEPT !.op = "Get", !.ref = ref, !.err = r.err,
                                  !.out = r.data, !.decrypted = r.decrypted]
    /\ UNCHANGED <<store, hasher, issued, calls, proc>>

\* the addresses a caller can ask about: those of its references, and one
\* that no blob of the model hashes to
UnknownAddress == Sha256(<<1, 1, 1>>)

StatInputs == {r.address : r \in KnownRefs} \cup {UnknownAddress}

\* Storage.Stat -> hoard.Store().Stat
Stat(address) ==
    /\ LET s == CasStat(store, address)
       IN  last' = [NoCall EXCEPT !.op = "Stat", !.ref = [NilRef EXCEPT !.address = address],
                                  !.err = s.err, !.exists = s.exists, !.size = s.size]
    /\ UNCHANGED <<store, hasher, issued, calls, proc>>

\* Encryption.Encrypt, then Storage.Push -> hoard.Store().Put
Push(data, salt, ok) ==
    /\ calls < MaxCalls
    /\ LET blob == Encrypt(data, salt)
           p == CasPut(store, hasher, blob.encryptedData, ok)
           ref == ReferenceNew(p.address, blob.secretKey, salt)
       IN  /\ store' = p.store
           /\ hasher' = p.hasher
           /\ issued' = IF p.err = NoErr THEN Issue("Push", data, salt, ref) ELSE issued
           /\ last' = [NoCall EXCEPT !.op = "Push", !.data = data, !.salt = salt,
                                     !.ref = ref, !.err = p.err,
                                     !.again = Again("Push", data, salt)]
    /\ calls' = calls + 1
    /\ UNCHANGED proc

\* Storage.Pull -> hoard.Store().Get, then Encryption.Decrypt
Pull(ref) ==
    /\ LET g == CasGet(store, ref.address)
           d == Decrypt(ref.secretKey, g.data, ref.salt)
       IN  last' = IF g.err # NoErr
                   THEN [NoCall EXCEPT !.op = "Pull", !.ref = ref, !.err = g.err,
                                       !.out = g.data]
                   ELSE [NoCall EXCEPT !.op = "Pull", !.ref = ref, !.err = d.err,
                                       !.out = d.data, !.decrypted = TRUE]
    /\ UNCHANGED <<store, hasher, issued, calls, proc>>

Next ==
    \/ \E data \in Data, salt \in Salts, ok \in BOOLEAN : Put(data, salt, ok)
    \/ \E data \in Data, salt \in Salts : Ref(data, salt)
    \/ \E ref \in GetInputs : Get(ref)
    \/ \E address \in StatInputs : Stat(address)
    \/ \E data \in Data, salt \in Salts, ok \in BOOLEAN : Push(data, salt, ok)
    \/ \E ref \in GetInputs : Pull(ref)

Spec == Init /\ [][Next]_vars

(* ------------------- calls handled in parallel ------------------------- *)

\* Each request handler runs its call as the code does, statement by
\* statement.  The hasher is one object shared by all of them and is not
\* synchronised, so the handlers' Reset, Write and Sum calls interleave
\* (taking each hasher call as atomic, the mildest outcome of the race).
\* The backend never fails here.

SetProc(p, pc, address) ==
    proc' = [proc EXCEPT ![p].pc = pc, ![p].address = address]

\* a request arrives: Put and Ref encrypt, Address takes the blob as given
Call(p, op, data, salt) ==
    /\ proc[p].pc = "idle"
    /\ calls < MaxConcCalls
    /\ LET blob == Encrypt(data, salt)
       IN  proc' = [proc EXCEPT ![p] =
                       [pc |-> "reset", op |-> op, data |-> data, salt |-> salt,
                        blob |-> IF op = "Address" THEN data ELSE blob.encryptedData,
                        key |-> IF op = "Address" THEN NoBytes ELSE blob.secretKey,
                        address |-> NoBytes]]
    /\ calls' = calls + 1
    /\ UNCHANGED <<store, hasher, issued, last>>

AddresserReset(p) ==
    /\ proc[p].pc = "reset"
    /\ hasher' = HasherReset(hasher)
    /\ SetProc(p, "write", NoBytes)
    /\ UNCHANGED <<store, issued, last, calls>>

AddresserWrite(p) ==
    /\ proc[p].pc = "write"
    /\ hasher' = HasherWrite(hasher, proc[p].blob)
    /\ SetProc(p, "sum", NoBytes)
    /\ UNCHANGED <<store, issued, last, calls>>

AddresserSum(p) ==
    /\ proc[p].pc = "sum"
    /\ SetProc(p, IF proc[p].op = "Put" THEN "put" ELSE "return", HasherSum(hasher))
    /\ UNCHANGED <<store, hasher, issued, last, calls>>

\* cas.store.Put(address, data) of a Put
CasStorePut(p) ==
    /\ proc[p].pc = "put"
    /\ store' = StorePut(store, proc[p].address, proc[p].blob, TRUE).store
    /\ SetProc(p, "return", proc[p].address)
    /\ UNCHANGED <<hasher, issued, last, calls>>

\* the handler returns proc[p].address (in a reference, for Put and Ref)
Return(p) ==
    /\ proc[p].pc = "return"
    /\ proc' = [proc EXCEPT ![p] = Idle]
    /\ UNCHANGED <<store, hasher, issued, last, calls>>

NextConc ==
    \/ \E p \in Procs, op \in {"Put", "Ref", "Address"}, data \in Data, salt \in Salts :
          Call(p, op, data, salt)
    \/ \E p \in Procs : AddresserReset(p)
    \/ \E p \in Procs : AddresserWrite(p)
    \/ \E p \in Procs : AddresserSum(p)
    \/ \E p \in Procs : CasStorePut(p)
    \/ \E p \in Procs : Return(p)

SpecConc == Init /\ [][NextConc]_vars

(* ------------------------------ claims --------------------------------- *)

\* a step that ran the counted call op (Put, Ref or Push)
Ran(op) == calls' = calls + 1 /\ last'.op = op

PutRecords == {r \in issued : r.op = "Put"}

\* C1: Get of a reference returned by a successful Put(data, salt) returns
\* exactly data and no error, whatever calls were made since that Put.
C1_RoundTrip ==
    last.op = "Get" =>
        \A r \in PutRecords :
            r.ref = last.ref => last.err = NoErr /\ last.out = r.data

\* C1 witness: a non-empty cleartext read back after a call on another pair
C1_Witness ==
    /\ last.op = "Get"
    /\ \E r \in PutRecords :
          /\ r.ref = last.ref /\ r.data # <<>> /\ r.salt # <<>>
          /\ last.out = r.data
          /\ \E o \in issued : <<o.data, o.salt>> # <<r.data, r.salt>>

\* C2: two Puts of the same (data, salt) handled in parallel both return
\* the same address, the hash of the ciphertext.
C2_ConcurrentPutsAgree ==
    \A p, q \in Procs :
        ( /\ p # q
          /\ proc[p].pc = "return" /\ proc[q].pc = "return"
          /\ proc[p].op = "Put" /\ proc[q].op = "Put"
          /\ proc[p].data = proc[q].data /\ proc[p].salt = proc[q].salt )
        => /\ proc[p].address = proc[q].address
           /\ proc[p].address = Sha256(Encrypt(proc[p].data, proc[p].salt).encryptedData)

\* C3: every call handled in parallel obtains the hash of its own blob, and
\* every key of the backing store is the hash of the blob stored under it.
C3_AddressOfOwnBlob ==
    /\ \A p \in Procs :
          proc[p].pc \in {"put", "return"} => proc[p].address = Sha256(proc[p].blob)
    /\ \A a \in DOMAIN store : a = Sha256(store[a])

\* C4: the reference of a successful Put(data, salt) equals, field by field,
\* the reference of Ref(data, salt), in whichever order the two were called.
C4_AddressDeterminism ==
    \A p \in PutRecords : \A r \in issued :
        (r.op = "Ref" /\ r.data = p.data /\ r.salt = p.salt) => r.ref = p.ref

\* C4 witness: a Put and a Ref of one pair whose ciphertext differs from
\* the cleartext, with another blob in the store
C4_Witness ==
    \E p \in PutRecords : \E r \in issued :
        /\ r.op = "Ref" /\ r.data = p.data /\ r.salt = p.salt
        /\ Encrypt(p.data, p.salt).encryptedData # p.data
        /\ p.ref.address \in DOMAIN store

\* C5: a successful Put of a pair that was already put returns the same
\* reference as before and leaves the store as it was, with the one blob
\* (the ciphertext) at that address.
C5_IdempotentPut ==
    [][(Ran("Put") /\ last'.again /\ last'.err = NoErr) =>
          /\ \A r \in PutRecords :
                (r.data = last'.data /\ r.salt = last'.salt) => r.ref = last'.ref
          /\ store' = store
          /\ last'.ref.address \in DOMAIN store'
          /\ store'[last'.ref.address] = Encrypt(last'.data, last'.salt).encryptedData
      ]_vars

\* C5 witness: the second successful Put of a non-empty cleartext
C5_Witness ==
    /\ last.op = "Put" /\ last.again /\ last.err = NoErr
    /\ last.data # <<>>
    /\ last.ref.address \in DOMAIN store

\* C6: Ref leaves the backing store unchanged, so an address that was not
\* stored before the call does not exist after it.
C6_RefNoSideEffect ==
    [][Ran("Ref") =>
          /\ store' = store
          /\ (last'.ref.address \notin DOMAIN store
                => ~CasStat(store', last'.ref.address).exists)
      ]_vars

\* C6 witness: a Ref of an address that is not stored, beside a stored blob
C6_Witness ==
    /\ last.op = "Ref" /\ last.err = NoErr
    /\ last.ref.address \notin DOMAIN store
    /\ store # <<>>

PushRecords == {r \in issued : r.op = "Push"}

\* C7: encrypting and pushing the ciphertext through Store() gives the
\* address and the store that Put(data, salt) gives from the same state, and
\* pulling that address and decrypting with the reference's key and salt
\* returns data.
C7_DecomposedPath ==
    [][ /\ (Ran("Push") /\ last'.err = NoErr) =>
              LET put == HoardPut(store, hasher, last'.data, last'.salt, TRUE)
              IN  /\ put.ref = last'.ref
                  /\ put.store = store'
        /\ last'.op = "Pull" =>
              \A r \in PushRecords :
                  r.ref = last'.ref => last'.err = NoErr /\ last'.out = r.data
      ]_vars

\* C7 witness: a pushed ciphertext that differs from its cleartext, pulled
\* and decrypted
C7_Witness ==
    /\ last.op = "Pull" /\ last.err = NoErr
    /\ \E r \in PushRecords :
          /\ r.ref = last.ref /\ last.out = r.data
          /\ store[r.ref.address] # r.data

\* the addresses of the successful writes
Written == {r.ref.address : r \in PutRecords \cup PushRecords}

\* C8: Stat of the address of a successful Put reports exists and the
\* length of the ciphertext; Stat of an address never written reports
\* exists = false; neither returns an error.
C8_StatSoundness ==
    last.op = "Stat" =>
        /\ \A r \in PutRecords :
              r.ref.address = last.ref.address =>
                  /\ last.err = NoErr
                  /\ last.exists
                  /\ last.size = Len(Encrypt(r.data, r.salt).encryptedData)
        /\ last.ref.address \notin Written =>
              /\ last.err = NoErr
              /\ ~last.exists

\* C8 witness: Stat of a stored two-byte blob
C8_Witness ==
    /\ last.op = "Stat" /\ last.exists /\ last.size = 2
    /\ \E r \in PutRecords : r.ref.address = last.ref.address

\* C9: Get with a reference that has no secret key fails with
\* InvalidArgument and returns no payload, in every store state.
C9_NoKeyInvalidArgument ==
    (last.op = "Get" /\ last.ref.secretKey = NoBytes) =>
        /\ last.err = "InvalidArgument"
        /\ last.out = Nil

\* C10: Get of an address absent from the store returns the store's NotFound
\* error as it is, no data, does not decrypt and leaves the store unchanged.
C10_GetAbsentNotFound ==
    [][(last'.op = "Get" /\ last'.ref.address \notin DOMAIN store) =>
          /\ last'.err = "NotFound"
          /\ last'.err = StoreGet(store, last'.ref.address).err
          /\ last'.out = Nil
          /\ ~last'.decrypted
          /\ store' = store
      ]_vars

\* C10 witness: NotFound for a computed reference while the store holds
\* another blob
C10_Witness ==
    /\ last.op = "Get" /\ last.err = "NotFound"
    /\ last.ref.secretKey # NoBytes
    /\ last.ref.address \notin DOMAIN store
    /\ store # <<>>

\* C11: an operation that returns an error returns no payload with it: no
\* reference from the facade's Put and Ref, no data from the facade's Get
\* and the store's Get, no address from the store's Put (last.ref.address
\* of a Push is the address contentAddressedStore.Put returned).
C11_ErrorExcludesPayload ==
    last.err # NoErr =>
        /\ last.op \in {"Put", "Ref"} => last.ref = NilRef
        /\ last.op \in {"Get", "Pull"} => last.out = Nil
        /\ last.op = "Push" => last.ref.address = NoBytes

====
